---- MODULE Spec2Model ----
(***************************************************************************)
(* Model of src/src/invoice_service.py: InvoiceService.compute_total and   *)
(* its helpers (_validate, _validate_item, _calculate_subtotal,            *)
(* _calculate_shipping, _calculate_discount, _calculate_tax).              *)
(*                                                                         *)
(* Amounts are exact decimals held as integers in units of 1/Scale of a    *)
(* currency unit; rates are held in percent.  Prices are whole currency    *)
(* units, so every product amount * rate the code forms is an exact        *)
(* multiple of the unit and no rounding is modelled.  IEEE special values  *)
(* (inf, nan) and binary rounding of Python floats are outside the model.  *)
(*                                                                         *)
(* Python's None is modelled by a flag: coupon and items are records       *)
(* [isNone, ...]; a missing invoice is the record with missing = TRUE.     *)
(* A coupon's text is a sequence of pieces, each either the whitespace     *)
(* piece " " or a word, so that str.strip() has something to remove.       *)
(***************************************************************************)
EXTENDS Integers, Sequences, FiniteSets, TLC

VARIABLES
    config,       \* the engine's tables: shipping, tax, membership, coupon
    inv,          \* the invoice object: the caller's before the call, the same object after it
    problems,     \* _validate's local list at the point compute_total left it
    raised,       \* "none", "ValueError" or "TypeError"
    message,      \* the message of the raised exception ("" when none)
    returned,     \* <<>> or << [total, warnings] >>: the value returned
    subtotal,     \* locals of compute_total (0 when the line was not reached)
    fragile_fee,
    shipping,
    discount,
    tax,
    rawTotal,     \* total of line 140, before the clamp of line 141
    warnings,     \* the warnings list object of the last call
    called,       \* whether compute_total has been called at all
    history       \* per tracked invoice: its number of calls and its first outcome

vars == <<config, inv, problems, raised, message, returned, subtotal,
          fragile_fee, shipping, discount, tax, rawTotal, warnings, called,
          history>>

\* ---------------------------------------------------------------- units

Scale == 100 * 100

Money(x) == x * Scale

\* amount * rate for a rate held in percent; amount is a multiple of 100 units
Times(amount, pct) == (amount \div 100) * pct

\* ---------------------------------------------------------------- bounds

MaxItems == 2

MaxCalls == 2

\* ---------------------------------------------------------------- tables

VALID_CATEGORIES == {"book", "food", "electronics", "other"}

SHIPPING_RULES ==
    ("TH"    :> << <<Money(500), Money(60)>> >>)
    @@ ("JP"    :> << <<Money(4000), Money(600)>> >>)
    @@ ("US"    :> << <<Money(100), Money(15)>>, <<Money(300), Money(8)>> >>)
    @@ ("OTHER" :> << <<Money(200), Money(25)>> >>)

TAX_RATE == ("TH" :> 7) @@ ("JP" :> 10) @@ ("US" :> 8) @@ ("OTHER" :> 5)

MEMBERSHIP_DISCOUNT == ("gold" :> 3) @@ ("platinum" :> 5)

CouponRateInit == ("WELCOME10" :> 10) @@ ("VIP20" :> 20) @@ ("STUDENT5" :> 5)

FRAGILE_UNIT_FEE == 5

FLAT_DISCOUNT == 20

FLAT_DISCOUNT_OVER == 3000

UPGRADE_OVER == 10000

\* dict.get(key, default)
Get(d, key, default) == IF key \in DOMAIN d THEN d[key] ELSE default

\* ---------------------------------------------------------------- strings

\* "; ".join(ps)
RECURSIVE Join(_)
Join(ps) ==
    IF ps = <<>> THEN ""
    ELSE IF Len(ps) = 1 THEN ps[1]
    ELSE ps[1] \o "; " \o Join(Tail(ps))

RECURSIVE LStrip(_)
LStrip(t) == IF t # <<>> /\ Head(t) = " " THEN LStrip(Tail(t)) ELSE t

RECURSIVE RStrip(_)
RStrip(t) ==
    IF t # <<>> /\ t[Len(t)] = " " THEN RStrip(SubSeq(t, 1, Len(t) - 1)) ELSE t

RECURSIVE Text(_)
Text(t) == IF t = <<>> THEN "" ELSE Head(t) \o Text(Tail(t))

\* str.strip(): the text without its leading and trailing whitespace
Strip(t) == Text(RStrip(LStrip(t)))

\* ---------------------------------------------------------------- validation

\* mutant: the price check excludes a price of zero
ValidateItemZeroPrice(it, ps) ==
    ps \o (IF it.sku = "" THEN <<"Item sku is missing">> ELSE <<>>)
       \o (IF it.qty <= 0 THEN <<"Invalid qty for " \o it.sku>> ELSE <<>>)
       \o (IF it.unit_price <= 0 THEN <<"Invalid price for " \o it.sku>> ELSE <<>>)
       \o (IF it.category \notin VALID_CATEGORIES
           THEN <<"Unknown category for " \o it.sku>> ELSE <<>>)

ValidateItem(it, ps) ==
    ps \o (IF it.sku = "" THEN <<"Item sku is missing">> ELSE <<>>)
       \o (IF it.qty <= 0 THEN <<"Invalid qty for " \o it.sku>> ELSE <<>>)
       \o (IF it.unit_price < 0 THEN <<"Invalid price for " \o it.sku>> ELSE <<>>)
       \o (IF it.category \notin VALID_CATEGORIES
           THEN <<"Unknown category for " \o it.sku>> ELSE <<>>)

RECURSIVE ValidateItems(_, _)
ValidateItems(list, ps) ==
    IF list = <<>> THEN ps
    ELSE ValidateItems(Tail(list), ValidateItem(Head(list), ps))

\* `not inv.items`: None and the empty list are both falsy
ItemsFalsy(items) == items.isNone \/ items.list = <<>>

\* the header checks of _validate, lines 61-66
ValidateHeader(i) ==
    (IF i.invoice_id = "" THEN <<"Missing invoice_id">> ELSE <<>>)
    \o (IF i.customer_id = "" THEN <<"Missing customer_id">> ELSE <<>>)
    \o (IF ItemsFalsy(i.items) THEN <<"Invoice must contain items">> ELSE <<>>)

\* iterating None raises TypeError (line 68)
IterRaises(items) == items.isNone

\* _validate: [error, problems]; error is the exception escaping it, if any
Validate(i) ==
    IF i.missing THEN [error |-> "none", problems |-> <<"Invoice is missing">>]
    ELSE IF IterRaises(i.items)
         THEN [error |-> "TypeError", problems |-> ValidateHeader(i)]
         ELSE [error |-> "none",
               problems |-> ValidateItems(i.items.list, ValidateHeader(i))]

\* ---------------------------------------------------------------- helpers

\* one pass of the loop of _calculate_subtotal, lines 90-92
AddItem(acc, it) ==
    [subtotal    |-> acc.subtotal + Money(it.unit_price) * it.qty,
     fragile_fee |-> IF it.fragile
                     THEN acc.fragile_fee + Money(FRAGILE_UNIT_FEE) * it.qty
                     ELSE acc.fragile_fee]

RECURSIVE SumItems(_, _)
SumItems(list, acc) ==
    IF list = <<>> THEN acc ELSE SumItems(Tail(list), AddItem(acc, Head(list)))

CalculateSubtotal(list) == SumItems(list, [subtotal |-> 0, fragile_fee |-> 0])

\* mutant: a subtotal equal to the threshold still pays the tier's fee
RuleAppliesInclusive(amount, limit) == amount <= limit

\* line 99
RuleApplies(amount, limit) == amount < limit

RECURSIVE ScanRules(_, _)
ScanRules(rules, amount) ==
    IF rules = <<>> THEN 0
    ELSE IF RuleApplies(amount, Head(rules)[1]) THEN Head(rules)[2]
    ELSE ScanRules(Tail(rules), amount)

CalculateShipping(country, amount) ==
    ScanRules(Get(config.shipping, country, config.shipping["OTHER"]), amount)

\* `if inv.coupon`: None and "" are falsy
CouponTruthy(c) == ~c.isNone /\ c.text # <<>>

\* mutant: `if` where the code has `elif`: the flat discount also for a tier
MembershipStepBoth(i, amount, d) ==
    (IF i.membership \in DOMAIN config.membership
     THEN d + Times(amount, config.membership[i.membership])
     ELSE d)
    + (IF amount > Money(FLAT_DISCOUNT_OVER) THEN Money(FLAT_DISCOUNT) ELSE 0)

\* mutant: `else` where the code has `elif subtotal > 3000`
MembershipStepFlatAlways(i, amount, d) ==
    IF i.membership \in DOMAIN config.membership
    THEN d + Times(amount, config.membership[i.membership])
    ELSE d + Money(FLAT_DISCOUNT)

\* lines 108-111: discount after the membership rule
MembershipStep(i, amount, d) ==
    IF i.membership \in DOMAIN config.membership
    THEN d + Times(amount, config.membership[i.membership])
    ELSE IF amount > Money(FLAT_DISCOUNT_OVER)
         THEN d + Money(FLAT_DISCOUNT)
         ELSE d

\* mutant: an unrecognized code is dropped without a warning
CouponStepSilent(i, amount, d, ws) ==
    IF CouponTruthy(i.coupon)
    THEN LET code == Strip(i.coupon.text)
         IN IF code \in DOMAIN config.coupon
            THEN [discount |-> d + Times(amount, config.coupon[code]),
                  warnings |-> ws]
            ELSE [discount |-> d, warnings |-> ws]
    ELSE [discount |-> d, warnings |-> ws]

\* lines 113-118: discount and warnings after the coupon rule
CouponStep(i, amount, d, ws) ==
    IF CouponTruthy(i.coupon)
    THEN LET code == Strip(i.coupon.text)
         IN IF code \in DOMAIN config.coupon
            THEN [discount |-> d + Times(amount, config.coupon[code]),
                  warnings |-> ws]
            ELSE [discount |-> d,
                  warnings |-> Append(ws, "Unknown coupon")]
    ELSE [discount |-> d, warnings |-> ws]

\* _calculate_discount: the discount and the warnings list after it
CalculateDiscount(i, amount, ws) ==
    CouponStep(i, amount, MembershipStep(i, amount, 0), ws)

CalculateTax(country, taxable) ==
    Times(taxable, Get(config.tax, country, config.tax["OTHER"]))

Max(a, b) == IF b > a THEN b ELSE a

\* mutant: one list kept across calls (a mutable default, an instance field)
NewWarningsShared(previous) == previous

\* line 129: a fresh list per call, whatever an earlier call left behind
NewWarnings(previous) == <<>>

\* mutant: tax on the subtotal before the discount
TaxableBeforeDiscount(sub, disc) == sub

\* line 138: the amount handed to _calculate_tax
Taxable(sub, disc) == sub - disc

\* line 140
CombineTotal(sub, ship, fee, tx, disc) == sub + ship + fee + tx - disc

\* line 141
Clamp(total) == Max(total, 0)

\* mutant: the advisory already at a subtotal of exactly 10000
UpgradeWarningInclusive(i, amount, ws) ==
    IF amount >= Money(UPGRADE_OVER) /\ i.membership \notin DOMAIN config.membership
    THEN Append(ws, "Consider membership upgrade")
    ELSE ws

\* lines 143-144
UpgradeWarning(i, amount, ws) ==
    IF amount > Money(UPGRADE_OVER) /\ i.membership \notin DOMAIN config.membership
    THEN Append(ws, "Consider membership upgrade")
    ELSE ws

\* ---------------------------------------------------------------- inputs

NoCoupon == [isNone |-> TRUE, text |-> <<>>]

Coupon(t) == [isNone |-> FALSE, text |-> t]

NoItems == [isNone |-> TRUE, list |-> <<>>]

Items(l) == [isNone |-> FALSE, list |-> l]

MissingInvoice ==
    [missing |-> TRUE, invoice_id |-> "", customer_id |-> "", country |-> "",
     membership |-> "", coupon |-> NoCoupon, items |-> NoItems]

Invoice(id, cust, country, membership, coupon, items) ==
    [missing |-> FALSE, invoice_id |-> id, customer_id |-> cust,
     country |-> country, membership |-> membership, coupon |-> coupon,
     items |-> items]

SeqsUpTo(S, n) == UNION {[1..k -> S] : k \in 0..n}

Countries == {"TH", "JP", "US", "OTHER", "XX"}

Memberships == {"gold", "platinum", "none"}

Coupons ==
    {NoCoupon, Coupon(<<>>), Coupon(<<"WELCOME10">>), Coupon(<<" ", "VIP20", " ">>),
     Coupon(<<"STUDENT5">>), Coupon(<<"BOGUS">>), Coupon(<<" ">>)}

\* prices that put subtotals below, on and above every threshold of the tables
Prices == {0, 100, 500, 3000, 4000, 10000, 10001}

PricedItems ==
    [sku : {"A"}, category : {"book"}, unit_price : Prices, qty : {1},
     fragile : {FALSE}]
    \cup [sku : {"B"}, category : {"food"}, unit_price : {100}, qty : {2},
          fragile : BOOLEAN]

\* items with every combination of the defects _validate_item looks for
CheckedItems ==
    [sku : {"", "A"}, category : {"book", "toy"}, unit_price : {0 - 1, 100},
     qty : {0, 1}, fragile : {FALSE}]

PricingInvoices ==
    {Invoice("INV1", "C1", c, m, k, Items(l)) :
        c \in Countries, m \in Memberships, k \in Coupons,
        l \in SeqsUpTo(PricedItems, MaxItems) \ {<<>>}}

ValidationInvoices ==
    {MissingInvoice}
    \cup {Invoice(id, cust, "TH", "none", NoCoupon, its) :
            id \in {"", "INV1"}, cust \in {"", "C1"},
            its \in {NoItems} \cup {Items(l) : l \in SeqsUpTo(CheckedItems, MaxItems)}}

Invoices == PricingInvoices \cup ValidationInvoices

\* invoices whose repeated calls are followed
TrackedInvoices ==
    {MissingInvoice}
    \cup {Invoice("INV1", "C1", "TH", "none", NoCoupon, its) :
            its \in {NoItems, Items(<<>>)}}
    \cup {Invoice("INV1", "C1", "TH", "none", k,
                  Items(<<[sku |-> "A", category |-> "book", unit_price |-> p,
                           qty |-> 1, fragile |-> FALSE]>>)) :
            k \in {Coupon(<<"BOGUS">>)}, p \in {100, 10001}}
    \cup {Invoice("INV1", "C1", "US", "gold", Coupon(<<"VIP20">>),
                  Items(<<[sku |-> "A", category |-> "book", unit_price |-> 4000,
                           qty |-> 1, fragile |-> FALSE]>>))}

\* ---------------------------------------------------------------- compute_total

InitialConfig ==
    [shipping |-> SHIPPING_RULES, tax |-> TAX_RATE,
     membership |-> MEMBERSHIP_DISCOUNT, coupon |-> CouponRateInit]

TypeErrorMessage == "'NoneType' object is not iterable"

\* compute_total left by an exception: nothing is returned
Raise(kind, msg, ps, ws) ==
    [raised |-> kind, message |-> msg, problems |-> ps, returned |-> <<>>,
     subtotal |-> 0, fragile_fee |-> 0, shipping |-> 0, discount |-> 0,
     tax |-> 0, rawTotal |-> 0, warnings |-> ws]

\* the body of compute_total on invoice i; previous is the warnings list the
\* call before left behind
ComputeTotalRun(i, previous) ==
    LET ws0 == NewWarnings(previous)
        v   == Validate(i)
    IN IF v.error # "none"
       THEN Raise(v.error, TypeErrorMessage, v.problems, ws0)
       ELSE IF v.problems # <<>>
       THEN Raise("ValueError", Join(v.problems), v.problems, ws0)
       ELSE LET s    == CalculateSubtotal(i.items.list)
                ship == CalculateShipping(i.country, s.subtotal)
                d    == CalculateDiscount(i, s.subtotal, ws0)
                tx   == CalculateTax(i.country, Taxable(s.subtotal, d.discount))
                raw  == CombineTotal(s.subtotal, ship, s.fragile_fee, tx, d.discount)
                ws   == UpgradeWarning(i, s.subtotal, d.warnings)
            IN [raised |-> "none", message |-> "", problems |-> v.problems,
                returned |-> << [total |-> Clamp(raw), warnings |-> ws] >>,
                subtotal |-> s.subtotal, fragile_fee |-> s.fragile_fee,
                shipping |-> ship, discount |-> d.discount, tax |-> tx,
                rawTotal |-> raw, warnings |-> ws]

\* what the caller observes of a call
Outcome == [raised |-> raised, message |-> message, returned |-> returned]

Compute(i) ==
    LET r == ComputeTotalRun(i, warnings)
    IN /\ called' = TRUE
       /\ inv' = i
       /\ problems' = r.problems
       /\ raised' = r.raised
       /\ message' = r.message
       /\ returned' = r.returned
       /\ subtotal' = r.subtotal
       /\ fragile_fee' = r.fragile_fee
       /\ shipping' = r.shipping
       /\ discount' = r.discount
       /\ tax' = r.tax
       /\ rawTotal' = r.rawTotal
       /\ warnings' = r.warnings
       /\ UNCHANGED config

\* a fresh engine, before the call, with the invoice the caller built
Fresh(i) ==
    /\ config = InitialConfig
    /\ called = FALSE
    /\ inv = i
    /\ problems = <<>>
    /\ raised = "none"
    /\ message = ""
    /\ returned = <<>>
    /\ subtotal = 0
    /\ fragile_fee = 0
    /\ shipping = 0
    /\ discount = 0
    /\ tax = 0
    /\ rawTotal = 0
    /\ warnings = <<>>
    /\ history = [t \in TrackedInvoices |-> [n |-> 0, first |-> <<>>]]

Init == \E i \in Invoices : Fresh(i)

\* the call of compute_total on the caller's invoice
ComputeTotal ==
    /\ ~called
    /\ Compute(inv)
    /\ UNCHANGED history

\* one call of compute_total on a tracked invoice, its outcome recorded
ComputeTotalTracked(i) ==
    /\ history[i].n < MaxCalls
    /\ Compute(i)
    /\ history' = [history EXCEPT ![i] =
                      [n |-> @.n + 1,
                       first |-> IF @.n = 0 THEN <<Outcome'>> ELSE @.first]]

Next == ComputeTotal

Spec == Init /\ [][Next]_vars

NextPure == \E i \in TrackedInvoices : ComputeTotalTracked(i)

InitPure == Fresh(MissingInvoice)

SpecPure == InitPure /\ [][NextPure]_vars

\* ---------------------------------------------------------------- vocabulary of the claims

\* an invoice that passes validation, as the specification describes one
ValidItem(it) ==
    /\ it.sku # ""
    /\ it.qty > 0
    /\ it.unit_price >= 0
    /\ it.category \in {"book", "food", "electronics", "other"}

ValidInvoice(i) ==
    /\ ~i.missing
    /\ i.invoice_id # ""
    /\ i.customer_id # ""
    /\ ~i.items.isNone
    /\ i.items.list # <<>>
    /\ \A k \in 1..Len(i.items.list) : ValidItem(i.items.list[k])

Returned == called /\ raised = "none" /\ returned # <<>>

Total == returned[1].total

Count(ws, w) == Cardinality({k \in 1..Len(ws) : ws[k] = w})

RecognizedTiers == {"gold", "platinum"}

RecognizedCoupons == {"WELCOME10", "VIP20", "STUDENT5"}

\* the text between the first and the last piece that is not whitespace
Trimmed(t) ==
    LET solid == {k \in 1..Len(t) : t[k] # " "}
    IN IF solid = {} THEN ""
       ELSE LET lo == CHOOSE k \in solid : \A j \in solid : k <= j
                hi == CHOOSE k \in solid : \A j \in solid : k >= j
            IN Text(SubSeq(t, lo, hi))

\* the coupon code an invoice carries, "" when it carries none
CarriedCode(i) == IF i.coupon.isNone THEN "" ELSE Trimmed(i.coupon.text)

CarriesCoupon(i) == ~i.coupon.isNone /\ i.coupon.text # <<>>

RECURSIVE SumSeq(_)
SumSeq(q) == IF q = <<>> THEN 0 ELSE Head(q) + SumSeq(Tail(q))

LineAmount(it) == it.unit_price * it.qty * Scale

LineFragileFee(it) == IF it.fragile THEN 5 * it.qty * Scale ELSE 0

ExpectedSubtotal(i) ==
    SumSeq([k \in 1..Len(i.items.list) |-> LineAmount(i.items.list[k])])

ExpectedFragileFee(i) ==
    SumSeq([k \in 1..Len(i.items.list) |-> LineFragileFee(i.items.list[k])])

\* pct percent of an amount that is a whole number of hundredths
PercentOf(amount, pct) == pct * (amount \div 100)

\* ---------------------------------------------------------------- C1

\* C1: every invoice that passes validation, whatever its country, membership
\* and coupon, gets a total, and that total is >= 0.
C1_TotalNonNegative ==
    (called /\ ValidInvoice(inv)) => (Returned /\ Total >= 0)

C1_Witness ==
    /\ called /\ ValidInvoice(inv) /\ Returned
    /\ inv.membership = "platinum" /\ CarriedCode(inv) = "VIP20"
    /\ discount > 0 /\ Total > 0

\* ---------------------------------------------------------------- C2

\* the problems of an item, in the order sku, qty, unit_price, category
ItemProblems(it) ==
    (IF it.sku = "" THEN <<"Item sku is missing">> ELSE <<>>)
    \o (IF it.qty <= 0 THEN <<"Invalid qty for " \o it.sku>> ELSE <<>>)
    \o (IF it.unit_price < 0 THEN <<"Invalid price for " \o it.sku>> ELSE <<>>)
    \o (IF it.category \notin {"book", "food", "electronics", "other"}
        THEN <<"Unknown category for " \o it.sku>> ELSE <<>>)

RECURSIVE Flatten(_)
Flatten(qs) == IF qs = <<>> THEN <<>> ELSE Head(qs) \o Flatten(Tail(qs))

\* every problem of a non-missing invoice, in detection order
ExpectedProblems(i) ==
    (IF i.invoice_id = "" THEN <<"Missing invoice_id">> ELSE <<>>)
    \o (IF i.customer_id = "" THEN <<"Missing customer_id">> ELSE <<>>)
    \o (IF i.items.isNone \/ i.items.list = <<>>
        THEN <<"Invoice must contain items">> ELSE <<>>)
    \o (IF i.items.isNone THEN <<>>
        ELSE Flatten([k \in 1..Len(i.items.list) |-> ItemProblems(i.items.list[k])]))

RECURSIVE Joined(_, _)
Joined(ps, k) ==
    IF k = 0 THEN "" ELSE IF k = 1 THEN ps[1]
    ELSE Joined(ps, k - 1) \o "; " \o ps[k]

\* C2: a non-missing invoice with at least one validation problem fails with
\* ValueError, returns nothing, and the message is all its problems in
\* detection order joined by "; ".
C2_AllProblemsReported ==
    (called /\ ~inv.missing /\ ExpectedProblems(inv) # <<>>) =>
        /\ raised = "ValueError"
        /\ returned = <<>>
        /\ message = Joined(ExpectedProblems(inv), Len(ExpectedProblems(inv)))

\* ---------------------------------------------------------------- C3

\* C3: an invoice whose items are empty or None fails with ValueError, with
\* "Invoice must contain items" among the problems its message joins, and
\* never fails otherwise nor returns a total.
C3_EmptyItemsRejected ==
    (called /\ ~inv.missing /\ (inv.items.isNone \/ inv.items.list = <<>>)) =>
        /\ raised = "ValueError"
        /\ returned = <<>>
        /\ \E k \in 1..Len(problems) : problems[k] = "Invoice must contain items"
        /\ message = Joined(problems, Len(problems))

\* ---------------------------------------------------------------- C4

\* the rule list of a country, the "OTHER" list when it has none
RulesOf(country) ==
    IF country \in {"TH", "JP", "US", "OTHER"}
    THEN SHIPPING_RULES[country] ELSE SHIPPING_RULES["OTHER"]

\* the fee of the first pair whose threshold is above the amount, else 0
FirstTierFee(country, amount) ==
    LET rules == RulesOf(country)
        above == {k \in 1..Len(rules) : amount < rules[k][1]}
    IN IF above = {} THEN 0
       ELSE rules[CHOOSE k \in above : \A j \in above : k <= j][2]

\* C4: the shipping fee is the fee of the first (threshold, fee) pair of the
\* country's list ("OTHER" list for an unknown country) with
\* subtotal < threshold, and 0 when there is no such pair.
C4_ShippingFirstTier ==
    Returned => shipping = FirstTierFee(inv.country, subtotal)

C4_Witness ==
    /\ Returned /\ inv.country = "US"
    /\ subtotal = 100 * Scale /\ shipping = 8 * Scale

\* ---------------------------------------------------------------- C5

ExpectedMembershipPart(i, amount) ==
    IF i.membership = "gold" THEN PercentOf(amount, 3)
    ELSE IF i.membership = "platinum" THEN PercentOf(amount, 5)
    ELSE IF amount > 3000 * Scale THEN 20 * Scale
    ELSE 0

ExpectedCouponPart(i, amount) ==
    IF CarriedCode(i) = "WELCOME10" THEN PercentOf(amount, 10)
    ELSE IF CarriedCode(i) = "VIP20" THEN PercentOf(amount, 20)
    ELSE IF CarriedCode(i) = "STUDENT5" THEN PercentOf(amount, 5)
    ELSE 0

\* C5: the discount of a valid invoice is its membership part (tier rate, or
\* the flat 20 above 3000 without a tier) plus its coupon part (rate of the
\* trimmed recognized code), each computed on the subtotal alone.
C5_DiscountAdditive ==
    (called /\ ValidInvoice(inv)) =>
        discount = ExpectedMembershipPart(inv, subtotal)
                   + ExpectedCouponPart(inv, subtotal)

C5_Witness ==
    /\ Returned /\ inv.membership = "gold" /\ subtotal > 3000 * Scale
    /\ inv.coupon.text = <<" ", "VIP20", " ">>
    /\ discount = PercentOf(subtotal, 23)

\* ---------------------------------------------------------------- C6

UnknownCoupon(i) == CarriesCoupon(i) /\ CarriedCode(i) \notin RecognizedCoupons

\* the total of the same invoice without its coupon
TotalWithoutCoupon(i) ==
    ComputeTotalRun([i EXCEPT !.coupon = NoCoupon], <<>>).returned[1].total

\* C6: a valid invoice with an unrecognized coupon code gets a total, the
\* warning "Unknown coupon" exactly once, and the total it would get with
\* no coupon.
C6_UnknownCouponWarns ==
    (called /\ ValidInvoice(inv) /\ UnknownCoupon(inv)) =>
        /\ Returned
        /\ Count(returned[1].warnings, "Unknown coupon") = 1
        /\ discount = ExpectedMembershipPart(inv, subtotal)
        /\ Total = TotalWithoutCoupon(inv)

C6_Witness ==
    /\ Returned /\ ValidInvoice(inv) /\ inv.coupon.text = <<"BOGUS">>
    /\ inv.country = "OTHER" /\ inv.membership = "none"
    /\ subtotal = 1000 * Scale /\ Total = 1050 * Scale
    /\ returned[1].warnings = <<"Unknown coupon">>

\* ---------------------------------------------------------------- C7

TaxPercent(country) ==
    IF country = "TH" THEN 7 ELSE IF country = "JP" THEN 10
    ELSE IF country = "US" THEN 8 ELSE 5

\* C7: the total of a valid invoice is max(0, subtotal + shipping +
\* fragile_fee + tax - discount), the subtotal the sum of unit_price * qty,
\* the fragile fee 5 * qty over the fragile items, and the tax the country's
\* rate on subtotal - discount.
C7_TotalFormula ==
    (called /\ ValidInvoice(inv)) =>
        /\ Returned
        /\ subtotal = ExpectedSubtotal(inv)
        /\ fragile_fee = ExpectedFragileFee(inv)
        /\ tax = PercentOf(subtotal - discount, TaxPercent(inv.country))
        /\ LET sum == subtotal + shipping + fragile_fee + tax - discount
           IN Total = IF sum < 0 THEN 0 ELSE sum

C7_Witness ==
    /\ Returned /\ ValidInvoice(inv) /\ inv.country = "US"
    /\ inv.membership = "gold" /\ CarriedCode(inv) = "WELCOME10"
    /\ subtotal = 4000 * Scale /\ discount = 520 * Scale
    /\ tax = 2784 * 1000 /\ Total = 37584 * 1000

\* ---------------------------------------------------------------- C8

Upgrade == "Consider membership upgrade"

Position(ws, w) == CHOOSE k \in 1..Len(ws) : ws[k] = w

\* C8: a valid invoice is warned "Consider membership upgrade" exactly when
\* subtotal > 10000 and its membership is no recognized tier; the warning is
\* then the last one, after "Unknown coupon" when both are there, and the
\* total is the clamped sum whether it is there or not.
C8_UpgradeAdvisory ==
    (called /\ ValidInvoice(inv)) =>
        /\ Returned
        /\ LET ws == returned[1].warnings
           IN /\ Count(ws, Upgrade) > 0 <=>
                    (subtotal > 10000 * Scale /\ inv.membership \notin RecognizedTiers)
              /\ Count(ws, Upgrade) > 0 =>
                    /\ ws[Len(ws)] = Upgrade
                    /\ Count(ws, Upgrade) = 1
                    /\ Count(ws, "Unknown coupon") > 0 =>
                          Position(ws, "Unknown coupon") < Position(ws, Upgrade)
        /\ Total = (IF rawTotal < 0 THEN 0 ELSE rawTotal)

C8_Witness ==
    /\ Returned /\ ValidInvoice(inv) /\ subtotal > 10000 * Scale
    /\ returned[1].warnings = <<"Unknown coupon", Upgrade>>

\* ---------------------------------------------------------------- C9

\* C9: however many calls were made, the tables are as constructed, the
\* invoice object is the one the caller built, and the outcome of a call is
\* the outcome of the first call with that invoice.
C9_Pure ==
    /\ config = InitialConfig
    /\ called =>
          /\ inv \in TrackedInvoices
          /\ history[inv].n > 0
          /\ history[inv].first = <<Outcome>>
          /\ returned # <<>> => warnings = returned[1].warnings
          /\ returned # <<>> => Len(returned[1].warnings) <= 2

C9_Witness ==
    /\ called /\ history[inv].n = MaxCalls /\ Returned
    /\ returned[1].warnings = <<"Unknown coupon", Upgrade>>
    /\ \E t \in TrackedInvoices : t # inv /\ history[t].n > 0

\* ---------------------------------------------------------------- C10

\* C10: with the compiled-in tables a valid invoice's discount is between 0
\* and a quarter of the subtotal, so the taxable amount and the tax are not
\* negative and the clamp leaves the total as computed.
C10_DiscountBounded ==
    (called /\ ValidInvoice(inv)) =>
        /\ 0 <= discount
        /\ discount <= subtotal
        /\ 4 * (discount \div 100) <= subtotal \div 100
        /\ subtotal - discount >= 0
        /\ tax >= 0
        /\ Returned /\ Total = rawTotal

C10_Witness ==
    /\ Returned /\ ValidInvoice(inv) /\ inv.membership = "none"
    /\ subtotal > 3000 * Scale /\ CarriedCode(inv) = "VIP20"
    /\ discount = PercentOf(subtotal, 20) + 20 * Scale

====
